---- MODULE Spec2Model ----
(***************************************************************************)
(* Model of the two command-line utilities of template-encrypted-player:   *)
(*   - scripts/setup_encryption.py  (EncryptionSetup)                      *)
(*   - register.py                  (RegistrationClient)                   *)
(* The operator invokes one of the two programs; `program` says which.     *)
(* The external tool (gpg), the filesystem and the HTTP server are the     *)
(* environment: their outcomes are nondeterministic choices.               *)
(***************************************************************************)
EXTENDS Integers, Sequences, FiniteSets, TLC

VARIABLES
    program,        \* "setup" or "register": which utility is run
    \* ---- EncryptionSetup ----
    run,            \* number of invocations of setup_encryption.py started so far
    pc,             \* position of the current invocation inside main()
    recipient,      \* main(): recipient
    passphrase,     \* main(): passphrase
    sourceExists,   \* filesystem: does args.source exist
    keystore,       \* gpg keystore: identities that have a secret key
    output,         \* filesystem: content of args.output
    asc,            \* filesystem: content of private-key.asc
    b64,            \* filesystem: content of private-key.asc.b64
    filesAtStart,   \* <<output, asc, b64>> when the current invocation started
    calls,          \* argv of every external command issued by this invocation
    stdout,         \* lines printed by this invocation
    exitCode,       \* process exit code of this invocation (-1 while running)
    failStep,       \* step at which this invocation failed ("none" otherwise)
    keyAtStart,     \* did the keystore hold the recipient's key when probed
    genInvoked,     \* generate_key was called by this invocation
    genOnExisting,  \* generate_key was called while the keystore held the key
    genOK,          \* generate_key succeeded in this invocation
    lastReturn,     \* returncode of the latest run(...) call of this invocation
    toolFailed,     \* some gpg call of this invocation misbehaved or failed
    wrote,          \* files written by this invocation
    secret,         \* export_secret_key(): secret (stdout of the export call)
    prev,           \* summary of the previous invocation
    \* ---- RegistrationClient ----
    env,            \* process environment of register.py
    rpc,            \* position inside register.py main()
    posts,          \* number of HTTP POST requests issued
    request,        \* the request that was posted
    response,       \* what requests.post returned or raised
    rExit,          \* exit code of register.py (-1 while running)
    rMessage,       \* SystemExit message / uncaught exception
    rOut            \* lines printed by register.py

setupVars == <<run, pc, recipient, passphrase, sourceExists, keystore, output,
               asc, b64, filesAtStart, calls, stdout, exitCode, failStep,
               keyAtStart, genInvoked, genOnExisting, genOK, lastReturn,
               toolFailed, wrote, secret, prev>>
regVars == <<env, rpc, posts, request, response, rExit, rMessage, rOut>>
vars == <<program, setupVars, regVars>>

(***************************************************************************)
(* Bounds                                                                  *)
(***************************************************************************)
MaxRuns == 2
MaxSecretLen == 2

(***************************************************************************)
(* base64.b64encode / decoding, on sequences of byte values                *)
(***************************************************************************)
Alphabet ==
    << "A","B","C","D","E","F","G","H","I","J","K","L","M","N","O","P",
       "Q","R","S","T","U","V","W","X","Y","Z","a","b","c","d","e","f",
       "g","h","i","j","k","l","m","n","o","p","q","r","s","t","u","v",
       "w","x","y","z","0","1","2","3","4","5","6","7","8","9","+","/" >>

Sextet(n) == Alphabet[n + 1]

RECURSIVE b64encode_nopad(_)
b64encode_nopad(s) ==
    IF Len(s) = 0 THEN << >>
    ELSE IF Len(s) = 1 THEN
        << Sextet(s[1] \div 4), Sextet((s[1] % 4) * 16) >>
    ELSE IF Len(s) = 2 THEN
        << Sextet(s[1] \div 4), Sextet((s[1] % 4) * 16 + s[2] \div 16),
           Sextet((s[2] % 16) * 4) >>
    ELSE
        << Sextet(s[1] \div 4), Sextet((s[1] % 4) * 16 + s[2] \div 16),
           Sextet((s[2] % 16) * 4 + s[3] \div 64), Sextet(s[3] % 64) >>
        \o b64encode_nopad(SubSeq(s, 4, Len(s)))

RECURSIVE b64encode(_)
b64encode(s) ==
    IF Len(s) = 0 THEN << >>
    ELSE IF Len(s) = 1 THEN
        << Sextet(s[1] \div 4), Sextet((s[1] % 4) * 16), "=", "=" >>
    ELSE IF Len(s) = 2 THEN
        << Sextet(s[1] \div 4), Sextet((s[1] % 4) * 16 + s[2] \div 16),
           Sextet((s[2] % 16) * 4), "=" >>
    ELSE
        << Sextet(s[1] \div 4), Sextet((s[1] % 4) * 16 + s[2] \div 16),
           Sextet((s[2] % 16) * 4 + s[3] \div 64), Sextet(s[3] % 64) >>
        \o b64encode(SubSeq(s, 4, Len(s)))

SextetValue(c) == (CHOOSE i \in 1..64 : Alphabet[i] = c) - 1

RECURSIVE b64decode(_)
b64decode(t) ==
    IF Len(t) < 4 THEN << >>
    ELSE
        LET a == SextetValue(t[1])
            b == SextetValue(t[2])
        IN  IF t[3] = "=" THEN
                << a * 4 + b \div 16 >>
            ELSE IF t[4] = "=" THEN
                << a * 4 + b \div 16,
                   (b % 16) * 16 + SextetValue(t[3]) \div 4 >>
            ELSE
                << a * 4 + b \div 16,
                   (b % 16) * 16 + SextetValue(t[3]) \div 4,
                   (SextetValue(t[3]) % 4) * 64 + SextetValue(t[4]) >>
                \o b64decode(SubSeq(t, 5, Len(t)))

(***************************************************************************)
(* Environment of EncryptionSetup                                          *)
(***************************************************************************)
Absent == [exists |-> FALSE, data |-> << >>]    \* a file that does not exist
File(data) == [exists |-> TRUE, data |-> data]  \* a file and its content
Partial == File(<< "truncated" >>)  \* what a failed gpg --encrypt may leave
None == "None"              \* Python None

Identities == {"alice", "bob"}
RecipientArgs == {None, "", "bob"}      \* --recipient
PlayerNameArgs == {"", "alice"}         \* positional / PLAYER_NAME
Passphrases == {"", "pw"}               \* what the operator types
ToolExitCodes == {2, 130}               \* non-zero exit codes of gpg
ByteValues == {0, 77, 255}

RECURSIVE SeqsUpTo(_, _)
SeqsUpTo(S, n) ==
    IF n = 0 THEN { << >> }
    ELSE LET shorter == SeqsUpTo(S, n - 1)
         IN  shorter \cup { Append(q, x) : q \in shorter, x \in S }

Secrets == SeqsUpTo(ByteValues, MaxSecretLen)

Ciphertext(rcpt) == File(<< "pgp", rcpt >>)

StaleAsc == File(<< 1, 2 >>)
StaleB64 == File(<< "Z", "g", "=", "=" >>)

NoPrev == [failStep |-> "norun", recipient |-> "", genOK |-> FALSE]

(***************************************************************************)
(* EncryptionSetup: scripts/setup_encryption.py                            *)
(***************************************************************************)
SourcePath == "strategy.py"
OutputPath == "strategy.py.gpg"
Expire == "1y"

ProbeArgv(rcpt) == << "gpg", "--batch", "--list-secret-keys", rcpt >>

GenerateArgv(rcpt, pass, expire) ==
    << "gpg", "--batch", "--passphrase", pass, "--pinentry-mode", "loopback",
       "--quick-gen-key", rcpt, "rsa4096", "sign,encrypt", expire >>

EncryptArgv(rcpt, source, out) ==
    << "gpg", "--batch", "--yes", "--output", out, "--encrypt",
       "--recipient", rcpt, source >>

ExportArgv(rcpt) == << "gpg", "--armor", "--export-secret-keys", rcpt >>

\* main(): recipient = args.recipient or args.player_name
ResolveRecipient(recArg, playerName) ==
    IF recArg # None /\ recArg # "" THEN recArg ELSE playerName

\* exit codes `gpg --list-secret-keys rcpt` can produce: non-zero when the
\* key is absent, and zero or (for any other reason) non-zero when it exists
ProbeExits(rcpt) ==
    IF rcpt \in keystore THEN {0} \cup ToolExitCodes ELSE ToolExitCodes

key_exists_always(probeExit) == TRUE

key_exists_never(probeExit) == FALSE

\* key_exists(): True unless subprocess.run(check=True) raised
key_exists(probeExit) == probeExit = 0

SourceMissingIgnored == FALSE

\* encrypt_strategy(): not source.exists()
SourceMissing == ~sourceExists

ToolErrorExitOne(returncode) == 1

\* __main__: except CalledProcessError as exc: sys.exit(exc.returncode)
ToolErrorExit(returncode) == returncode

\* raise SystemExit("..."): the interpreter exits with status 1
SystemExitStr == 1

Running == program = "setup" /\ pc \notin {"idle", "exited"}

Say(line) == stdout' = Append(stdout, line)

Issue(argv) == calls' = Append(calls, argv)

\* the invocation ends at `step` with exit code `code`
Terminate(code, step) ==
    /\ pc' = "exited"
    /\ exitCode' = code
    /\ failStep' = step

\* An invocation starts: parse_args() and the identity resolution of main().
StartRun(recArg, playerName, srcExists) ==
    /\ program = "setup"
    /\ pc \in {"idle", "exited"}
    /\ run < MaxRuns
    /\ run' = run + 1
    /\ prev' = IF pc = "idle" THEN NoPrev
               ELSE [failStep |-> failStep, recipient |-> recipient,
                     genOK |-> genOK]
    /\ sourceExists' = srcExists
    /\ filesAtStart' = << output, asc, b64 >>
    /\ calls' = << >>
    /\ stdout' = << >>
    /\ passphrase' = None
    /\ keyAtStart' = FALSE
    /\ genInvoked' = FALSE
    /\ genOnExisting' = FALSE
    /\ genOK' = FALSE
    /\ toolFailed' = FALSE
    /\ lastReturn' = 0
    /\ wrote' = {}
    /\ secret' = None
    /\ recipient' = ResolveRecipient(recArg, playerName)
    /\ IF recipient' = ""
       THEN Terminate(SystemExitStr, "identity")
       ELSE pc' = "getpass" /\ exitCode' = -1 /\ failStep' = "none"
    /\ UNCHANGED << program, keystore, output, asc, b64, regVars >>

\* main(): getpass.getpass and the empty-passphrase check
GetPass(p) ==
    /\ program = "setup"
    /\ pc = "getpass"
    /\ passphrase' = p
    /\ IF p = ""
       THEN Terminate(SystemExitStr, "passphrase")
       ELSE pc' = "probe" /\ UNCHANGED << exitCode, failStep >>
    /\ UNCHANGED << program, run, recipient, sourceExists, keystore, output,
                    asc, b64, filesAtStart, calls, stdout, keyAtStart,
                    genInvoked, genOnExisting, genOK, lastReturn, toolFailed,
                    wrote, secret, prev, regVars >>

\* main(): if not key_exists(recipient) ... else print("Reusing ...")
Probe(code) ==
    /\ program = "setup"
    /\ pc = "probe"
    /\ code \in ProbeExits(recipient)
    /\ Issue(ProbeArgv(recipient))
    /\ keyAtStart' = (recipient \in keystore)
    /\ toolFailed' = (toolFailed \/ (recipient \in keystore /\ code # 0))
    /\ IF key_exists(code)
       THEN pc' = "encrypt" /\ Say(<< "Reusing existing GPG key", recipient >>)
       ELSE pc' = "generate" /\ UNCHANGED stdout
    /\ UNCHANGED << program, run, recipient, passphrase, sourceExists,
                    keystore, output, asc, b64, filesAtStart, exitCode,
                    failStep, genInvoked, genOnExisting, genOK, lastReturn,
                    wrote, secret, prev, regVars >>

\* generate_key(recipient, passphrase, args.expire)
Generate(code) ==
    /\ program = "setup"
    /\ pc = "generate"
    /\ code \in {0} \cup ToolExitCodes
    /\ Say(<< "Generating GPG key for", recipient >>)
    /\ Issue(GenerateArgv(recipient, passphrase, Expire))
    /\ genInvoked' = TRUE
    /\ genOnExisting' = (recipient \in keystore)
    /\ lastReturn' = code
    /\ IF code = 0
       THEN /\ keystore' = keystore \cup {recipient}
            /\ genOK' = TRUE
            /\ pc' = "encrypt"
            /\ UNCHANGED << exitCode, failStep, toolFailed >>
       ELSE /\ Terminate(ToolErrorExit(code), "generate")
            /\ toolFailed' = TRUE
            /\ UNCHANGED << keystore, genOK >>
    /\ UNCHANGED << program, run, recipient, passphrase, sourceExists, output,
                    asc, b64, filesAtStart, keyAtStart, wrote, secret, prev,
                    regVars >>

\* encrypt_strategy(recipient, args.source, args.output)
Encrypt(code, leftover) ==
    /\ program = "setup"
    /\ pc = "encrypt"
    /\ code \in {0} \cup ToolExitCodes
    /\ leftover \in {output, Partial}
    /\ IF SourceMissing
       THEN /\ code = 0 /\ leftover = output       \* gpg is not run
            /\ Terminate(SystemExitStr, "source")
            /\ UNCHANGED << output, calls, stdout, lastReturn, toolFailed,
                            wrote >>
       ELSE /\ Say(<< "Encrypting", SourcePath, OutputPath >>)
            /\ Issue(EncryptArgv(recipient, SourcePath, OutputPath))
            /\ lastReturn' = code
            /\ IF code = 0
               THEN /\ leftover = output
                    /\ output' = Ciphertext(recipient)
                    /\ wrote' = wrote \cup {"output"}
                    /\ pc' = "export"
                    /\ UNCHANGED << exitCode, failStep, toolFailed >>
               ELSE /\ output' = leftover
                    /\ Terminate(ToolErrorExit(code), "encrypt")
                    /\ toolFailed' = TRUE
                    /\ UNCHANGED wrote
    /\ UNCHANGED << program, run, recipient, passphrase, sourceExists,
                    keystore, asc, b64, filesAtStart, keyAtStart, genInvoked,
                    genOnExisting, genOK, secret, prev, regVars >>

\* export_secret_key(recipient), then the "Next steps" guidance of main()
Export(code, exported) ==
    /\ program = "setup"
    /\ pc = "export"
    /\ code \in {0} \cup ToolExitCodes
    /\ exported \in Secrets
    /\ Issue(ExportArgv(recipient))
    /\ lastReturn' = code
    /\ IF code = 0
       THEN /\ secret' = exported
            /\ asc' = File(exported)
            /\ b64' = File(b64encode(exported))
            /\ wrote' = wrote \cup {"private-key.asc", "private-key.asc.b64"}
            /\ stdout' = stdout \o << << "Exporting private key artefacts" >>,
                                      << "Wrote", "private-key.asc",
                                         "private-key.asc.b64" >>,
                                      << "Next steps" >> >>
            /\ Terminate(0, "none")
            /\ UNCHANGED toolFailed
       ELSE /\ exported = << >>
            /\ Say(<< "Exporting private key artefacts" >>)
            /\ Terminate(ToolErrorExit(code), "export")
            /\ toolFailed' = TRUE
            /\ UNCHANGED << secret, asc, b64, wrote >>
    /\ UNCHANGED << program, run, recipient, passphrase, sourceExists,
                    keystore, output, filesAtStart, keyAtStart, genInvoked,
                    genOnExisting, genOK, prev, regVars >>

SetupNext ==
    \/ \E recArg \in RecipientArgs, playerName \in PlayerNameArgs,
          srcExists \in BOOLEAN : StartRun(recArg, playerName, srcExists)
    \/ \E p \in Passphrases : GetPass(p)
    \/ \E code \in {0} \cup ToolExitCodes : Probe(code)
    \/ \E code \in {0} \cup ToolExitCodes : Generate(code)
    \/ \E code \in {0} \cup ToolExitCodes, leftover \in {output, Partial} :
          Encrypt(code, leftover)
    \/ \E code \in {0} \cup ToolExitCodes, exported \in Secrets :
          Export(code, exported)

SetupInit ==
    /\ run = 0
    /\ pc = "idle"
    /\ recipient = ""
    /\ passphrase = None
    /\ sourceExists = FALSE
    /\ keystore \in SUBSET Identities
    /\ output \in {Absent, Ciphertext("alice")}
    /\ asc \in {Absent, StaleAsc}
    /\ b64 \in {Absent, StaleB64}
    /\ filesAtStart = << output, asc, b64 >>
    /\ calls = << >>
    /\ stdout = << >>
    /\ exitCode = -1
    /\ failStep = "none"
    /\ keyAtStart = FALSE
    /\ genInvoked = FALSE
    /\ genOnExisting = FALSE
    /\ genOK = FALSE
    /\ toolFailed = FALSE
    /\ lastReturn = 0
    /\ wrote = {}
    /\ secret = None
    /\ prev = NoPrev

SetupOff ==
    /\ run = 0
    /\ pc = "idle"
    /\ recipient = ""
    /\ passphrase = None
    /\ sourceExists = FALSE
    /\ keystore = {}
    /\ output = Absent
    /\ asc = Absent
    /\ b64 = Absent
    /\ filesAtStart = << Absent, Absent, Absent >>
    /\ calls = << >>
    /\ stdout = << >>
    /\ exitCode = -1
    /\ failStep = "none"
    /\ keyAtStart = FALSE
    /\ genInvoked = FALSE
    /\ genOnExisting = FALSE
    /\ genOK = FALSE
    /\ toolFailed = FALSE
    /\ lastReturn = 0
    /\ wrote = {}
    /\ secret = None
    /\ prev = NoPrev

(***************************************************************************)
(* Python strings (sequences of characters) and JSON values                *)
(***************************************************************************)
Whitespace == {" "}

RECURSIVE LStrip(_)
LStrip(s) ==
    IF Len(s) > 0 /\ s[1] \in Whitespace THEN LStrip(Tail(s)) ELSE s

RECURSIVE RStrip(_, _)
RStrip(s, chars) ==
    IF Len(s) > 0 /\ s[Len(s)] \in chars
    THEN RStrip(SubSeq(s, 1, Len(s) - 1), chars) ELSE s

StripNothing(s) == s

\* str.strip()
Strip(s) == RStrip(LStrip(s), Whitespace)

\* str.startswith(prefix)
StartsWith(s, prefix) ==
    Len(s) >= Len(prefix) /\ SubSeq(s, 1, Len(prefix)) = prefix

UpperCase == << "A","B","C","D","E","F","G","H","I","J","K","L","M","N","O","P",
                "Q","R","S","T","U","V","W","X","Y","Z" >>
LowerCase == << "a","b","c","d","e","f","g","h","i","j","k","l","m","n","o","p",
                "q","r","s","t","u","v","w","x","y","z" >>

LowerChar(c) ==
    IF \E i \in 1..26 : UpperCase[i] = c
    THEN LowerCase[CHOOSE i \in 1..26 : UpperCase[i] = c]
    ELSE c

\* str.lower()
Lower(s) == [i \in 1..Len(s) |-> LowerChar(s[i])]

JNull == [t |-> "null"]
JBool(v) == [t |-> "bool", v |-> v]
JNum(v) == [t |-> "num", v |-> v]
JStr(v) == [t |-> "str", v |-> v]
JArr(n) == [t |-> "arr", n |-> n]
JObj(status, name, id) ==
    [t |-> "obj", status |-> status, player_name |-> name, player_id |-> id]
Missing == [t |-> "missing"]            \* key not in the JSON object

\* Python truth value of a JSON value (None for a missing key)
Truthy(v) ==
    CASE v.t = "null" -> FALSE
      [] v.t = "missing" -> FALSE
      [] v.t = "bool" -> v.v
      [] v.t = "num" -> v.v # 0
      [] v.t = "str" -> Len(v.v) > 0
      [] v.t = "arr" -> v.n > 0
      [] v.t = "obj" -> TRUE

\* dict.get(key): None when the key is missing
Get(v) == IF v.t = "missing" THEN JNull ELSE v

(***************************************************************************)
(* Environment of RegistrationClient                                       *)
(***************************************************************************)
Http == << "h","t","t","p",":","/","/" >>
Https == << "h","t","t","p","s",":","/","/" >>
DefaultPlayerName ==
    << "e","n","c","r","y","p","t","e","d","-","t","e","m","p","l","a","t","e" >>
RegisterPath == << "/","r","e","g","i","s","t","e","r" >>
Registered == << "r","e","g","i","s","t","e","r","e","d" >>
AlreadyRegistered ==
    << "a","l","r","e","a","d","y","_","r","e","g","i","s","t","e","r","e","d" >>

Unset == [set |-> FALSE, v |-> << >>]   \* variable not in the environment
Val(s) == [set |-> TRUE, v |-> s]

ServerUrls ==
    { Unset, Val(<< " " >>), Val(<< "s" >>), Val(<< "h","t","t","p" >>),
      Val(<< "f","t","p",":","/","/","s" >>),
      Val(Http \o << "s" >>),
      Val(<< " " >> \o Https \o << "s", "/", " " >>) }
Tokens == { Unset, Val(<< " " >>), Val(<< "t" >>) }
PlayerNames == { Unset, Val(<< >>), Val(<< " ", "p" >>) }
GithubRepositories == { Unset, Val(<< >>), Val(<< "o", "/", "r" >>) }
GithubRepos == { Unset, Val(<< "q" >>) }

\* os.getenv(name, default)
GetEnv(x, default) == IF x.set THEN x.v ELSE default

Environments ==
    [SERVER_URL : ServerUrls, GAME_TOKEN : Tokens, PLAYER_NAME : PlayerNames,
     GITHUB_REPOSITORY : GithubRepositories, GITHUB_REPO : GithubRepos]

TransportErrors == { "ConnectionError", "Timeout" }
StatusCodes == { 200, 201, 304, 404, 500 }

StatusValues ==
    { Missing, JNull, JBool(FALSE), JBool(TRUE), JNum(0), JNum(42), JArr(0),
      JArr(1), JStr(<< >>), JStr(Registered),
      JStr(<< "R","e","g","i","s","t","e","r","e","d" >>),
      JStr(AlreadyRegistered),
      JStr(<< "A","L","R","E","A","D","Y","_","R","E","G","I","S","T","E","R",
              "E","D" >>),
      JStr(<< "o","k" >>) }

JsonDocuments ==
    { JNull, JNum(7), JArr(1), JStr(Registered) }
    \cup { JObj(st, JStr(<< "b","o","t","1" >>), JNum(42)) : st \in StatusValues }
    \cup { JObj(JStr(AlreadyRegistered), Missing, JNum(7)) }

Bodies ==
    { [json |-> FALSE, text |-> "boom"], [json |-> FALSE, text |-> ""] }
    \cup { [json |-> TRUE, value |-> d] : d \in JsonDocuments }

NoResponse == [kind |-> "none"]

(***************************************************************************)
(* RegistrationClient: register.py                                         *)
(***************************************************************************)
\* module level: PLAYER_NAME = os.getenv("PLAYER_NAME", "encrypted-template").strip()
PLAYER_NAME == Strip(GetEnv(env.PLAYER_NAME, DefaultPlayerName))

server_url == Strip(GetEnv(env.SERVER_URL, << >>))

github_token == Strip(GetEnv(env.GAME_TOKEN, << >>))

github_repo ==
    Strip(GetEnv(env.GITHUB_REPOSITORY, GetEnv(env.GITHUB_REPO, << >>)))

SetOrMissing(s) == IF Len(s) > 0 THEN "set" ELSE "missing"

ConfigStateLine ==
    << "Config state", SetOrMissing(server_url), SetOrMissing(github_token),
       SetOrMissing(PLAYER_NAME), SetOrMissing(github_repo) >>

\* the first failing check of main(), "" when the configuration passes
ConfigError ==
    IF Len(server_url) = 0 THEN "SERVER_URL environment variable not set"
    ELSE IF Len(github_token) = 0 THEN "GAME_TOKEN environment variable not set"
    ELSE IF Len(PLAYER_NAME) = 0 THEN "PLAYER_NAME environment variable not set"
    ELSE IF Len(github_repo) = 0
        THEN "GITHUB_REPO or GITHUB_REPOSITORY environment variable not set"
    ELSE IF ~(StartsWith(server_url, Http) \/ StartsWith(server_url, Https))
        THEN "SERVER_URL must include scheme (http/https)"
    ELSE ""

RegFinish(code, message) ==
    /\ rpc' = "done"
    /\ rExit' = code
    /\ rMessage' = message

\* main() up to and including the call of requests.post
Validate ==
    /\ program = "register"
    /\ rpc = "start"
    /\ IF ConfigError # ""
       THEN /\ RegFinish(SystemExitStr, << ConfigError >>)
            /\ rOut' = Append(rOut, ConfigStateLine)
            /\ UNCHANGED << posts, request >>
       ELSE /\ rpc' = "posted"
            /\ rOut' = rOut \o << ConfigStateLine,
                                  << "Using endpoint",
                                     RStrip(server_url, {"/"}) \o RegisterPath >>,
                                  << "Configuring auto-trigger for repo",
                                     github_repo >>,
                                  << "Using GAME_TOKEN" >> >>
            /\ posts' = posts + 1
            /\ request' = [url |-> RStrip(server_url, {"/"}) \o RegisterPath,
                           bearer |-> github_token,
                           player_name |-> PLAYER_NAME,
                           github_repo |-> github_repo,
                           timeout |-> 10]
            /\ UNCHANGED << rExit, rMessage >>
    /\ UNCHANGED << program, setupVars, env, response >>

\* requests.post raised: except Exception as exc
TransportFailure(cause) ==
    /\ program = "register"
    /\ rpc = "posted"
    /\ response' = [kind |-> "exception", cause |-> cause]
    /\ RegFinish(SystemExitStr, << "Registration error", cause >>)
    /\ UNCHANGED << program, setupVars, env, posts, request, rOut >>

\* requests.Response.ok: no 4xx or 5xx status
Ok(status_code) == ~(400 <= status_code /\ status_code < 600)

\* print(f"...{payload.get('player_name')}...{payload.get('player_id')}")
PlayerFields(payload) == << Get(payload.player_name), Get(payload.player_id) >>

\* requests.post returned: the rest of main()
Respond(status_code, body) ==
    /\ program = "register"
    /\ rpc = "posted"
    /\ response' = [kind |-> "response", status_code |-> status_code,
                    body |-> body]
    /\ IF ~Ok(status_code)
       THEN /\ RegFinish(SystemExitStr,
                         << "Registration failed", status_code, body >>)
            /\ UNCHANGED rOut
       ELSE IF ~body.json
       THEN /\ RegFinish(0, << >>)
            /\ rOut' = Append(rOut, << "Registration succeeded but response was not JSON." >>)
       ELSE IF body.value.t # "obj"
       THEN /\ RegFinish(1, << "AttributeError", "get" >>)
            /\ UNCHANGED rOut
       ELSE LET payload == body.value
                got == Get(payload.status)
                value == IF Truthy(got) THEN got ELSE JStr(<< >>)
            IN  IF value.t # "str"
                THEN /\ RegFinish(1, << "AttributeError", "lower" >>)
                     /\ UNCHANGED rOut
                ELSE /\ RegFinish(0, << >>)
                     /\ rOut' =
                          IF Lower(value.v) = Registered
                          THEN rOut \o << << "registered" >> \o PlayerFields(payload),
                                          << "Auto-trigger configured for repo",
                                             github_repo >> >>
                          ELSE IF Lower(value.v) = AlreadyRegistered
                          THEN Append(rOut, << "already registered" >>
                                            \o PlayerFields(payload))
                          ELSE Append(rOut, << "Registration response", payload >>)
    /\ UNCHANGED << program, setupVars, env, posts, request >>

RegNext ==
    \/ Validate
    \/ \E cause \in TransportErrors : TransportFailure(cause)
    \/ \E status_code \in StatusCodes, body \in Bodies :
          Respond(status_code, body)

RegInit ==
    /\ env \in Environments
    /\ rpc = "start"
    /\ posts = 0
    /\ request = None
    /\ response = NoResponse
    /\ rExit = -1
    /\ rMessage = << >>
    /\ rOut = << >>

RegOff ==
    /\ env = [SERVER_URL |-> Unset, GAME_TOKEN |-> Unset, PLAYER_NAME |-> Unset,
              GITHUB_REPOSITORY |-> Unset, GITHUB_REPO |-> Unset]
    /\ rpc = "off"
    /\ posts = 0
    /\ request = None
    /\ response = NoResponse
    /\ rExit = -1
    /\ rMessage = << >>
    /\ rOut = << >>

(***************************************************************************)
(* The system                                                              *)
(***************************************************************************)
Init ==
    \/ program = "setup" /\ SetupInit /\ RegOff
    \/ program = "register" /\ SetupOff /\ RegInit

Next == SetupNext \/ RegNext

Spec == Init /\ [][Next]_vars

(***************************************************************************)
(* Vocabulary of the properties                                            *)
(***************************************************************************)
SetupExited == program = "setup" /\ run > 0 /\ pc = "exited"

IsCall(argv, flag) == \E j \in 1..Len(argv) : argv[j] = flag

Issued(flag) == \E i \in 1..Len(calls) : IsCall(calls[i], flag)

Files == << output, asc, b64 >>

GuidancePrinted == \E i \in 1..Len(stdout) : stdout[i] = << "Next steps" >>

RegDone == program = "register" /\ rpc = "done"

Is2xx(code) == 200 <= code /\ code <= 299

\* a set variable whose value has a character that is not whitespace
NonBlank(x) == x.set /\ \E i \in 1..Len(x.v) : x.v[i] \notin Whitespace

\* the value, after its leading whitespace, begins with the scheme
HasScheme(x) ==
    /\ x.set
    /\ \E k \in 0..Len(x.v) :
          /\ \A i \in 1..k : x.v[i] \in Whitespace
          /\ \/ StartsWith(SubSeq(x.v, k + 1, Len(x.v)), Http)
             \/ StartsWith(SubSeq(x.v, k + 1, Len(x.v)), Https)

ValidConfiguration ==
    /\ NonBlank(env.SERVER_URL)
    /\ NonBlank(env.GAME_TOKEN)
    /\ (env.PLAYER_NAME.set => NonBlank(env.PLAYER_NAME))
    /\ IF env.GITHUB_REPOSITORY.set THEN NonBlank(env.GITHUB_REPOSITORY)
       ELSE NonBlank(env.GITHUB_REPO)
    /\ HasScheme(env.SERVER_URL)

(***************************************************************************)
(* C1: generate_key is called only while the keystore holds no secret key  *)
(* for the resolved identity, whatever the existence probe returned.       *)
(***************************************************************************)
C1_GenerateOnlyWithoutKey ==
    (program = "setup" /\ genInvoked) => ~genOnExisting

(***************************************************************************)
(* C2: when the plaintext source does not exist, the invocation never      *)
(* issues the gpg encryption call, changes none of the ciphertext output,  *)
(* private-key.asc and private-key.asc.b64, and ends with a non-zero exit. *)
(***************************************************************************)
C2_MissingSourceIsFatalBeforeEncrypt ==
    (program = "setup" /\ run > 0 /\ ~sourceExists) =>
        /\ ~Issued("--encrypt")
        /\ ~Issued("--export-secret-keys")
        /\ Files = filesAtStart
        /\ wrote = {}
        /\ pc # "export"
        /\ pc = "exited" => exitCode # 0

C2_Witness ==
    /\ SetupExited
    /\ ~sourceExists
    /\ failStep = "source"
    /\ exitCode = 1
    /\ filesAtStart[1].exists

(***************************************************************************)
(* C3: the passphrase the operator typed is in the argv of no external     *)
(* command issued by the invocation.                                       *)
(***************************************************************************)
C3_PassphraseNotInArgv ==
    program = "setup" =>
        \A i \in 1..Len(calls) : ~IsCall(calls[i], passphrase)

(***************************************************************************)
(* C4: the HTTP POST is issued only under a valid configuration; under an  *)
(* invalid one register.py ends fatally without any request.               *)
(***************************************************************************)
C4_PostOnlyWhenConfigValid ==
    program = "register" =>
        /\ posts > 0 => ValidConfiguration
        /\ (rpc # "start" /\ ~ValidConfiguration) =>
              (rpc = "done" /\ rExit # 0 /\ posts = 0 /\ request = None)

C4_Witness ==
    /\ RegDone
    /\ posts = 0
    /\ rExit = 1
    /\ NonBlank(env.SERVER_URL)
    /\ ~HasScheme(env.SERVER_URL)
    /\ NonBlank(env.GAME_TOKEN)

(***************************************************************************)
(* C5: every 2xx response, whatever its body, makes register.py return     *)
(* normally with exit 0 and an informational line.                         *)
(***************************************************************************)
C5_Every2xxIsNonFatal ==
    (RegDone /\ response.kind = "response" /\ Is2xx(response.status_code)) =>
        (rExit = 0 /\ rMessage = << >> /\ Len(rOut) > 4)

(***************************************************************************)
(* C6: a non-zero exit of gpg during generation, encryption or export ends *)
(* the invocation with that exit code and no later step runs.              *)
(***************************************************************************)
C6_ToolFailureIsFatal ==
    (program = "setup" /\ lastReturn # 0) =>
        /\ pc = "exited"
        /\ exitCode = lastReturn
        /\ ~GuidancePrinted
        /\ asc = filesAtStart[2] /\ b64 = filesAtStart[3]
        /\ wrote \subseteq {"output"}
        /\ IsCall(calls[Len(calls)], "--quick-gen-key") =>
              /\ output = filesAtStart[1]
              /\ wrote = {}
              /\ ~Issued("--encrypt")
              /\ ~Issued("--export-secret-keys")
        /\ IsCall(calls[Len(calls)], "--encrypt") =>
              ~Issued("--export-secret-keys")

C6_Witness ==
    /\ SetupExited
    /\ failStep = "export"
    /\ lastReturn = 130
    /\ exitCode = 130
    /\ filesAtStart[2].exists

(***************************************************************************)
(* C7: at most one POST is issued; a transport exception ends register.py  *)
(* non-zero with "Registration error" and the cause; a non-success HTTP    *)
(* status ends it non-zero with the status code and the body.              *)
(***************************************************************************)
C7_FailedRequestIsTerminal ==
    program = "register" =>
        /\ posts <= 1
        /\ (RegDone /\ response.kind = "exception") =>
              (rExit # 0 /\ rMessage = << "Registration error", response.cause >>)
        /\ (RegDone /\ response.kind = "response"
                    /\ ~Is2xx(response.status_code)) =>
              /\ rExit # 0
              /\ rMessage = << "Registration failed", response.status_code,
                               response.body >>

(***************************************************************************)
(* C8: after the key-export step completed, private-key.asc.b64 decodes to *)
(* the content of private-key.asc, which is the export gpg returned.       *)
(***************************************************************************)
C8_Base64RoundTrip ==
    (program = "setup" /\ "private-key.asc" \in wrote) =>
        /\ asc.exists /\ b64.exists
        /\ asc.data = secret
        /\ b64decode(b64.data) = asc.data

C8_Witness ==
    /\ SetupExited
    /\ exitCode = 0
    /\ Len(secret) = 2
    /\ filesAtStart[2] = StaleAsc
    /\ filesAtStart[3] = StaleB64

(***************************************************************************)
(* C9: an invocation that follows one that failed at key generation, the   *)
(* source check, encryption or export, with the same identity, a non-empty *)
(* passphrase, an existing source and no misbehaving gpg call, completes   *)
(* every step, calls generate_key only if the keystore held no key, so a   *)
(* key is generated at most once over the two, and rewrites the            *)
(* ciphertext and both export files.                                       *)
(***************************************************************************)
C9_RerunAfterFailure ==
    (/\ SetupExited
     /\ prev.failStep \in {"generate", "source", "encrypt", "export"}
     /\ prev.recipient = recipient
     /\ passphrase \notin {None, ""}
     /\ sourceExists
     /\ ~toolFailed) =>
        /\ exitCode = 0 /\ failStep = "none"
        /\ Issued("--encrypt") /\ Issued("--export-secret-keys")
        /\ GuidancePrinted
        /\ genInvoked => ~keyAtStart
        /\ ~(prev.genOK /\ genOK)
        /\ wrote = {"output", "private-key.asc", "private-key.asc.b64"}
        /\ output = Ciphertext(recipient)
        /\ asc = File(secret)

C9_Witness ==
    /\ SetupExited
    /\ prev.failStep = "encrypt"
    /\ prev.recipient = recipient
    /\ prev.genOK
    /\ filesAtStart[1] = Partial
    /\ ~toolFailed
    /\ exitCode = 0
    /\ ~genInvoked

(***************************************************************************)
(* C10: the source check comes after the probe and the conditional key     *)
(* generation: an invocation that found no key and fails on the missing    *)
(* source has called generate_key and left a new key in the keystore.      *)
(***************************************************************************)
C10_SourceCheckAfterGeneration ==
    (SetupExited /\ failStep = "source") =>
        /\ Len(calls) >= 1 /\ calls[1] = ProbeArgv(recipient)
        /\ ~keyAtStart =>
              /\ genInvoked /\ genOK
              /\ Len(calls) = 2
              /\ calls[2] = GenerateArgv(recipient, passphrase, Expire)
              /\ recipient \in keystore

C10_Witness ==
    /\ SetupExited
    /\ failStep = "source"
    /\ ~keyAtStart
    /\ genOK
    /\ recipient \in keystore

====
